---- MODULE Spec2Model ----
(***************************************************************************)
(* Model of the point-cloud converter: the Logic layer of                  *)
(* point_cloud_converter.py (validate_sub, cleaned_cloud, point_data,      *)
(* preview, _create_xlsx, _xlsx_path, transform), its caller               *)
(* PointCloudConverter (start, update_hint), and the older variant in      *)
(* point_cloud_transformer.py whose transform fills a caller-supplied      *)
(* container (PointCloudTransformer.points).                               *)
(*                                                                         *)
(* Strings are sequences of one-character strings.  A float is a rational  *)
(* [n, d] with d > 0.  The program is Python 2 (PyQt4, str lines from a    *)
(* file opened 'rb'), so round() is half-away-from-zero and a missing file *)
(* raises IOError.  pandas/numpy are modelled as of the last Python 2      *)
(* releases (pandas 0.24, numpy 1.16).  Paths follow posixpath (Qt hands   *)
(* out '/'-separated paths).                                               *)
(***************************************************************************)
EXTENDS Integers, Sequences, FiniteSets, TLC

VARIABLES fs, le_text, points, call

vars == <<fs, le_text, points, call>>

-----------------------------------------------------------------------------
(* Bounds of the model *)

\* longest text typed into the subsample field
MaxTextLen == 3
\* most lines of an input file in the parser specification
MaxLines == 3
\* most lines of an input file in the engine specifications
MaxEngineLines == 2
\* most rows PointCloudTransformer.points is let to hold
MaxRows == 3

-----------------------------------------------------------------------------
(* Characters and strings *)

CR == "\r"
LF == "\n"

Digits == {"0", "1", "2", "3", "4", "5", "6", "7", "8", "9"}

DigitVal(c) ==
    CASE c = "0" -> 0 [] c = "1" -> 1 [] c = "2" -> 2 [] c = "3" -> 3
      [] c = "4" -> 4 [] c = "5" -> 5 [] c = "6" -> 6 [] c = "7" -> 7
      [] c = "8" -> 8 [] c = "9" -> 9

\* All sequences over S of length at most n
SeqsUpTo(S, n) == UNION {[1..k -> S] : k \in 0..n}

RECURSIVE Pow10(_)
Pow10(k) == IF k = 0 THEN 1 ELSE 10 * Pow10(k - 1)

\* value of a sequence of digit characters, read as a decimal numeral
RECURSIVE DigitsVal(_)
DigitsVal(s) ==
    IF s = <<>> THEN 0
    ELSE 10 * DigitsVal(SubSeq(s, 1, Len(s) - 1)) + DigitVal(s[Len(s)])

\* s with every occurrence of character c removed
RemoveChar(s, c) == SelectSeq(s, LAMBDA x : x # c)

-----------------------------------------------------------------------------
(* Python float(): numeric parse of a str.  Accepts [sign] digits [. digits] *)
(* and [sign] . digits; anything else (empty, a lone sign or point, a       *)
(* letter) raises ValueError.                                               *)

FloatBody(s) == IF Len(s) > 0 /\ s[1] \in {"-", "+"} THEN Tail(s) ELSE s

FloatParses(s) ==
    LET b == FloatBody(s)
        dots == {i \in 1..Len(b) : b[i] = "."}
    IN  /\ Len(b) > 0
        /\ \A i \in 1..Len(b) : b[i] \in Digits \cup {"."}
        /\ Cardinality(dots) <= 1
        /\ \E i \in 1..Len(b) : b[i] \in Digits

\* the value of a text that parses, as a rational n/d
FloatValue(s) ==
    LET b == FloatBody(s)
        dots == {i \in 1..Len(b) : b[i] = "."}
        frac == IF dots = {} THEN 0 ELSE Len(b) - (CHOOSE i \in dots : TRUE)
        mag == DigitsVal(RemoveChar(b, "."))
    IN  [n |-> IF s[1] = "-" THEN 0 - mag ELSE mag, d |-> Pow10(frac)]

\* float(x): [raised, value]
float(s) ==
    IF FloatParses(s) THEN [raised |-> FALSE, value |-> FloatValue(s)]
    ELSE [raised |-> TRUE, value |-> [n |-> 0, d |-> 1]]

-----------------------------------------------------------------------------
(* Logic.validate_sub / Logic.validate_subsample *)

NoFloat == [n |-> 0, d |-> 1]

\* the chained comparison 0.0 < x <= 1.0
InUnitInterval(x) == 0 < x.n /\ x.n <= x.d

InUnitInterval_closedAtZero(x) == 0 <= x.n /\ x.n <= x.d

\* returns [none, value, raised]: none = TRUE stands for Python's None
validate_sub_noLowerBound(x) ==
    LET r == float(x)
    IN  IF r.raised THEN [none |-> TRUE, value |-> NoFloat, raised |-> FALSE]
        ELSE IF InUnitInterval_closedAtZero(r.value)
             THEN [none |-> FALSE, value |-> r.value, raised |-> FALSE]
             ELSE [none |-> TRUE, value |-> NoFloat, raised |-> FALSE]

validate_sub(x) ==
    LET r == float(x)
    IN  IF r.raised THEN [none |-> TRUE, value |-> NoFloat, raised |-> FALSE]
        ELSE IF InUnitInterval(r.value)
             THEN [none |-> FALSE, value |-> r.value, raised |-> FALSE]
             ELSE [none |-> TRUE, value |-> NoFloat, raised |-> FALSE]

validate_subsample(x) ==
    LET r == float(x)
    IN  IF r.raised THEN [none |-> TRUE, value |-> NoFloat, raised |-> FALSE]
        ELSE IF InUnitInterval(r.value)
             THEN [none |-> FALSE, value |-> r.value, raised |-> FALSE]
             ELSE [none |-> TRUE, value |-> NoFloat, raised |-> FALSE]

-----------------------------------------------------------------------------
(* The file system: every path holds a record                               *)
(*   [kind: "absent" | "text" | "xlsx", bytes: the text, grid: the sheet]   *)

Absent == [kind |-> "absent", bytes |-> <<>>, grid |-> <<>>]

TextFile(b) == [kind |-> "text", bytes |-> b, grid |-> <<>>]

XlsxFile(g) == [kind |-> "xlsx", bytes |-> <<>>, grid |-> g]

-----------------------------------------------------------------------------
(* Python str and file primitives used by the parser *)

\* index of the first c in s at or after position i, 0 when there is none
RECURSIVE find(_, _, _)
find(s, c, i) ==
    IF i > Len(s) THEN 0 ELSE IF s[i] = c THEN i ELSE find(s, c, i + 1)

\* `for line in f` on a file opened 'rb': a line ends after each LF, the
\* last one at the end of the file.
RECURSIVE FileLines(_)
FileLines(b) ==
    IF b = <<>> THEN <<>>
    ELSE LET lf == find(b, LF, 1)
             cut == IF lf = 0 THEN Len(b) ELSE lf
         IN  <<SubSeq(b, 1, cut)>> \o FileLines(SubSeq(b, cut + 1, Len(b)))

\* line.split(','): the fields between the commas, at least one field
RECURSIVE split(_, _)
split(s, sep) ==
    LET i == find(s, sep, 1)
    IN  IF i = 0 THEN <<s>>
        ELSE <<SubSeq(s, 1, i - 1)>> \o split(SubSeq(s, i + 1, Len(s)), sep)

\* s.replace('\r\n', ''): every CR LF pair removed, left to right
RECURSIVE replace_crlf(_)
replace_crlf(s) ==
    IF Len(s) < 2 THEN s
    ELSE IF s[1] = CR /\ s[2] = LF THEN replace_crlf(SubSeq(s, 3, Len(s)))
    ELSE <<s[1]>> \o replace_crlf(Tail(s))

-----------------------------------------------------------------------------
(* Logic.cleaned_cloud (converter) and Logic._clean_cloud (transformer)     *)

\* the body of the else branch: split, strip row[2], the row to append;
\* row[2] raises IndexError when the line has fewer than 3 fields
clean_row(line) ==
    LET row == split(line, ",")
    IN  IF Len(row) < 3 THEN [err |-> "IndexError", row |-> row]
        ELSE [err |-> "",
              row |-> [row EXCEPT ![3] = replace_crlf(row[3])]]

\* the loop without the test for the comment marker
RECURSIVE clean_loop_keepComments(_, _)
clean_loop_keepComments(lines, container) ==
    IF lines = <<>> THEN [err |-> "", container |-> container]
    ELSE LET r == clean_row(Head(lines))
         IN  IF r.err # "" THEN [err |-> r.err, container |-> container]
             ELSE clean_loop_keepComments(Tail(lines), Append(container, r.row))

\* the loop over the lines, appending to container; stops at the first
\* exception, with what was appended so far still in the container
RECURSIVE clean_loop(_, _)
clean_loop(lines, container) ==
    IF lines = <<>> THEN [err |-> "", container |-> container]
    ELSE LET line == Head(lines)
         IN  IF line[1] = "#" THEN clean_loop(Tail(lines), container)
             ELSE LET r == clean_row(line)
                  IN  IF r.err # "" THEN [err |-> r.err, container |-> container]
                      ELSE clean_loop(Tail(lines), Append(container, r.row))

\* open(filepath, 'rb') raises IOError when the file is missing
cleaned_cloud(fsys, filepath) ==
    IF fsys[filepath].kind = "absent" THEN [err |-> "IOError", ret |-> <<>>]
    ELSE LET r == clean_loop(FileLines(fsys[filepath].bytes), <<>>)
         IN  [err |-> r.err, ret |-> IF r.err = "" THEN r.container ELSE <<>>]

\* fills the caller's container in place and returns it
_clean_cloud(fsys, filepath, container) ==
    IF fsys[filepath].kind = "absent"
    THEN [err |-> "IOError", container |-> container]
    ELSE clean_loop(FileLines(fsys[filepath].bytes), container)

-----------------------------------------------------------------------------
(* os.path.split / splitext / join, as posixpath computes them *)

\* index of the last c in s, 0 when there is none (str.rfind + 1)
LastIndex(s, c) ==
    LET at == {i \in 1..Len(s) : s[i] = c}
    IN  IF at = {} THEN 0 ELSE CHOOSE i \in at : \A j \in at : j <= i

\* s without its trailing c's (str.rstrip)
RECURSIVE rstrip(_, _)
rstrip(s, c) ==
    IF s # <<>> /\ s[Len(s)] = c THEN rstrip(SubSeq(s, 1, Len(s) - 1), c) ELSE s

path_split(p) ==
    LET i == LastIndex(p, "/")
        head == SubSeq(p, 1, i)
        tail == SubSeq(p, i + 1, Len(p))
    IN  [head |-> IF head # <<>> /\ rstrip(head, "/") # <<>>
                  THEN rstrip(head, "/") ELSE head,
         tail |-> tail]

\* splitext of a name without separators: the extension starts at the last
\* dot, unless only dots come before it
path_splitext(name) ==
    LET dot == LastIndex(name, ".")
    IN  IF dot > 0 /\ \E k \in 1..(dot - 1) : name[k] # "."
        THEN [root |-> SubSeq(name, 1, dot - 1), ext |-> SubSeq(name, dot, Len(name))]
        ELSE [root |-> name, ext |-> <<>>]

path_join(a, b) ==
    IF b # <<>> /\ b[1] = "/" THEN b
    ELSE IF a = <<>> \/ a[Len(a)] = "/" THEN a \o b
    ELSE a \o <<"/">> \o b

DotXlsx == <<".", "x", "l", "s", "x">>

\* Logic._xlsx_path
_xlsx_path(filepath) ==
    LET ht == path_split(filepath)
        filename == path_splitext(ht.tail).root
    IN  path_join(ht.head, filename \o DotXlsx)

-----------------------------------------------------------------------------
(* pandas: DataFrame(data), DataFrame.sample(frac, random_state),           *)
(* DataFrame.to_excel(path, header, index)                                  *)

\* a cell pandas fills in when a row is shorter than the widest row
NoneCell == <<"None">>

Max(S) == CHOOSE x \in S : \A y \in S : y <= x

\* decimal numeral of a small natural number, as a string of characters
RECURSIVE NatStr(_)
NatStr(k) ==
    LET d == CHOOSE c \in Digits : DigitVal(c) = k % 10
    IN  IF k < 10 THEN <<d>> ELSE NatStr(k \div 10) \o <<d>>

\* pd.DataFrame(data): one labelled row per element, padded to the widest
DataFrame(data) ==
    LET width == IF data = <<>> THEN 0 ELSE Max({Len(data[i]) : i \in 1..Len(data)})
    IN  [i \in 1..Len(data) |->
            [label |-> i - 1,
             cells |-> [j \in 1..width |->
                          IF j <= Len(data[i]) THEN data[i][j] ELSE NoneCell]]]

\* Python 2 round(p/q), q > 0, as an int: halves go away from zero
RoundTowardZero(p, q) == IF p >= 0 THEN p \div q ELSE 0 - ((0 - p) \div q)

Round(p, q) ==
    IF p >= 0 THEN (2 * p + q) \div (2 * q)
    ELSE 0 - ((q - 2 * p) \div (2 * q))

\* all orders of n items
Perms(n) == {f \in [1..n -> 1..n] : \A i, j \in 1..n : f[i] = f[j] => i = j}

\* random_state=random.randint(0, 10): the orders the seeded generator can
\* draw over n items.  Which order a seed gives is left open, so every order
\* is possible, whatever the seed.
SeededOrders(n) == Perms(n)

\* the drawn order restricted to a population of n
permutation(rng, n) == SelectSeq(rng, LAMBDA k : k <= n)

\* df.sample(frac=frac, random_state=seed): n = int(round(frac * len(df)));
\* ValueError when n < 0 or n > len(df); else the first n rows of the
\* drawn order
sample(df, frac, rng) ==
    LET N == Len(df)
        n == Round(frac.n * N, frac.d)
        order == permutation(rng, N)
    IN  IF n < 0 \/ n > N THEN [err |-> "ValueError", df |-> <<>>]
        ELSE [err |-> "", df |-> [i \in 1..n |-> df[order[i]]]]

\* df.to_excel(path, header=..., index=...): the grid of cells written
to_excel(df, header, index) ==
    LET width == IF df = <<>> THEN 0 ELSE Len(df[1].cells)
        head == [j \in 1..width |-> NatStr(j - 1)]
        line(r) == IF index THEN <<NatStr(r.label)>> \o r.cells ELSE r.cells
        body == [i \in 1..Len(df) |-> line(df[i])]
    IN  IF header THEN <<IF index THEN <<<<>>>> \o head ELSE head>> \o body
        ELSE body

-----------------------------------------------------------------------------
(* Logic.point_data, preview, _create_xlsx, transform (converter)           *)

point_data_truncating(data, subsample, rng) ==
    LET N == Len(data)
        n == RoundTowardZero(subsample.n * N, subsample.d)
        order == permutation(rng, N)
        df == DataFrame(data)
    IN  IF n < 0 \/ n > N THEN [err |-> "ValueError", count |-> 0, df |-> <<>>]
        ELSE [err |-> "", count |-> n, df |-> [i \in 1..n |-> df[order[i]]]]

\* returns (len(df.index), df)
point_data(data, subsample, rng) ==
    LET r == sample(DataFrame(data), subsample, rng)
    IN  [err |-> r.err, count |-> Len(r.df), df |-> r.df]

\* writes the sampled frame with a header row
_create_xlsx_withHeader(fsys, filepath, data, subsample, rng) ==
    LET r == point_data(data, subsample, rng)
    IN  IF r.err # "" THEN [err |-> r.err, fs |-> fsys]
        ELSE [err |-> "",
              fs |-> [fsys EXCEPT ![_xlsx_path(filepath)] =
                         XlsxFile(to_excel(r.df, TRUE, FALSE))]]

_create_xlsx(fsys, filepath, data, subsample, rng) ==
    LET r == point_data(data, subsample, rng)
    IN  IF r.err # "" THEN [err |-> r.err, fs |-> fsys]
        ELSE [err |-> "",
              fs |-> [fsys EXCEPT ![_xlsx_path(filepath)] =
                         XlsxFile(to_excel(r.df, FALSE, FALSE))]]

\* preview that saves what it sampled
preview_saving(fsys, filepath, subsample, rng) ==
    LET points_ == cleaned_cloud(fsys, filepath)
        r == point_data(points_.ret, subsample, rng)
        w == _create_xlsx(fsys, filepath, points_.ret, subsample, rng)
    IN  IF points_.err # "" THEN [err |-> points_.err, ret |-> 0, fs |-> fsys]
        ELSE IF r.err # "" THEN [err |-> r.err, ret |-> 0, fs |-> fsys]
        ELSE [err |-> "", ret |-> r.count, fs |-> w.fs]

\* returns the point count; the file system is handed back as it was
preview(fsys, filepath, subsample, rng) ==
    LET points_ == cleaned_cloud(fsys, filepath)
        r == point_data(points_.ret, subsample, rng)
    IN  IF points_.err # "" THEN [err |-> points_.err, ret |-> 0, fs |-> fsys]
        ELSE IF r.err # "" THEN [err |-> r.err, ret |-> 0, fs |-> fsys]
        ELSE [err |-> "", ret |-> r.count, fs |-> fsys]

\* transform that creates the output before it reads the input
transform_writeFirst(fsys, filepath, subsample, rng) ==
    LET touched == [fsys EXCEPT ![_xlsx_path(filepath)] = XlsxFile(<<>>)]
        data == cleaned_cloud(fsys, filepath)
    IN  IF data.err # "" THEN [err |-> data.err, fs |-> touched]
        ELSE _create_xlsx(touched, filepath, data.ret, subsample, rng)

transform(fsys, filepath, subsample, rng) ==
    LET data == cleaned_cloud(fsys, filepath)
    IN  IF data.err # "" THEN [err |-> data.err, fs |-> fsys]
        ELSE _create_xlsx(fsys, filepath, data.ret, subsample, rng)

-----------------------------------------------------------------------------
(* Logic._create_xlsx, transform (transformer variant) and                  *)
(* PointCloudTransformer.start                                              *)

T_create_xlsx(fsys, filepath, data, subsample, rng) ==
    LET r == sample(DataFrame(data), subsample, rng)
    IN  IF r.err # "" THEN [err |-> r.err, fs |-> fsys]
        ELSE [err |-> "",
              fs |-> [fsys EXCEPT ![_xlsx_path(filepath)] =
                         XlsxFile(to_excel(r.df, FALSE, FALSE))]]

\* fills container, then saves it; the container keeps what was appended
T_transform(fsys, filepath, container, subsample, rng) ==
    LET c == _clean_cloud(fsys, filepath, container)
        w == T_create_xlsx(fsys, filepath, c.container, subsample, rng)
    IN  IF c.err # "" THEN [err |-> c.err, fs |-> fsys, container |-> c.container]
        ELSE [err |-> w.err, fs |-> w.fs, container |-> c.container]

-----------------------------------------------------------------------------
(* Inputs *)

\* characters the user types into the subsample field
TextAlphabet == {"0", "1", "5", ".", "-", "a"}

Texts == SeqsUpTo(TextAlphabet, MaxTextLen)

\* lines of the input format, and lines that break it
CommentLine == <<"#", "1", ",", "2", ",", "3", CR, LF>>
CrLfLine == <<"1", ",", "2", ",", "3", CR, LF>>
LfLine == <<"4", ",", "5", ",", "6", LF>>
FourFieldLine == <<"7", ",", "8", ",", "9", ",", "0", CR, LF>>
TwoFieldLine == <<"1", ",", "2", CR, LF>>
BlankLine == <<CR, LF>>
UnterminatedLine == <<"7", ",", "8", ",", "9">>

LineKinds ==
    {CommentLine, CrLfLine, LfLine, FourFieldLine, TwoFieldLine, BlankLine,
     UnterminatedLine}

EngineLineKinds == {CommentLine, CrLfLine, FourFieldLine, TwoFieldLine}

RECURSIVE Concat(_)
Concat(ss) == IF ss = <<>> THEN <<>> ELSE Head(ss) \o Concat(Tail(ss))

\* the contents an input file can have
FileContents(kinds, n) == {Concat(ls) : ls \in SeqsUpTo(kinds, n)}

\* paths handed to the Logic layer
PathA == <<"d", ".", "e", "/", "a", ".", "b", ".", "t", "x", "t">>
PathB == <<"b", ".", "c", ".", "t", "x", "t">>
PathMissing == <<"d", "/", "/", "m">>

InputPaths == {PathA, PathB, PathMissing}

\* number of rows parse gives for the file at p (0 when it raises)
RowCount(fsys, p) == Len(cleaned_cloud(fsys, p).ret)

Paths == InputPaths \cup {_xlsx_path(p) : p \in InputPaths}

\* what PathB holds: one data line
PathBContent == <<"5", ",", "5", ",", "5", CR, LF>>

\* an output left by an earlier run
StaleGrid == <<<<<<"9">>, <<"9">>, <<"9">>>>>>

\* subsample values handed to preview and transform, as n/d
Fractions ==
    {[n |-> 0 - 1, d |-> 2], [n |-> 0, d |-> 1], [n |-> 1, d |-> 2],
     [n |-> 3, d |-> 4], [n |-> 1, d |-> 1], [n |-> 5, d |-> 4]}

-----------------------------------------------------------------------------
(* State *)

\* the record of the last call: its arguments and what it returned or raised
NoCall ==
    [op |-> "none", filepath |-> <<>>, text |-> <<>>, subsample |-> NoFloat,
     none |-> FALSE, value |-> NoFloat, count |-> 0, rows |-> <<>>, err |-> ""]

\* a file system with PathA holding content, PathB its one line, PathMissing
\* nothing, and a stale output beside PathMissing
InitialFs(content) ==
    [p \in Paths |->
        IF p = PathA THEN TextFile(content)
        ELSE IF p = PathB THEN TextFile(PathBContent)
        ELSE IF p = _xlsx_path(PathMissing) THEN XlsxFile(StaleGrid)
        ELSE Absent]

\* SubSampleDialog.__init__: le.setText('1.0')
DefaultText == <<"1", ".", "0">>

-----------------------------------------------------------------------------
(* Specification of the validator: the text is drawn, validate is applied *)

InitValidate ==
    /\ le_text \in Texts
    /\ fs = InitialFs(<<>>)
    /\ points = <<>>
    /\ call = NoCall

ValidateSub ==
    /\ call.op = "none"
    /\ LET r == validate_sub(le_text)
       IN  call' = [NoCall EXCEPT !.op = "validate_sub", !.text = le_text,
                                  !.none = r.none, !.value = r.value,
                                  !.err = IF r.raised THEN "ValueError" ELSE ""]
    /\ UNCHANGED <<fs, le_text, points>>

ValidateSubsample ==
    /\ call.op = "none"
    /\ LET r == validate_subsample(le_text)
       IN  call' = [NoCall EXCEPT !.op = "validate_subsample", !.text = le_text,
                                  !.none = r.none, !.value = r.value,
                                  !.err = IF r.raised THEN "ValueError" ELSE ""]
    /\ UNCHANGED <<fs, le_text, points>>

NextValidate == ValidateSub \/ ValidateSubsample

SpecValidate == InitValidate /\ [][NextValidate]_vars

-----------------------------------------------------------------------------
(* Specification of the parser: the file is drawn, parse is applied *)

InitParse ==
    /\ \E content \in FileContents(LineKinds, MaxLines) : fs = InitialFs(content)
    /\ le_text = DefaultText
    /\ points = <<>>
    /\ call = NoCall

CleanedCloud(p) ==
    /\ call.op = "none"
    /\ LET r == cleaned_cloud(fs, p)
       IN  call' = [NoCall EXCEPT !.op = "cleaned_cloud", !.filepath = p,
                                  !.rows = r.ret, !.err = r.err]
    /\ UNCHANGED <<fs, le_text, points>>

CleanCloud(p) ==
    /\ call.op = "none"
    /\ LET r == _clean_cloud(fs, p, points)
       IN  /\ call' = [NoCall EXCEPT !.op = "_clean_cloud", !.filepath = p,
                                     !.rows = IF r.err = "" THEN r.container ELSE <<>>,
                                     !.err = r.err]
           /\ points' = r.container
    /\ UNCHANGED <<fs, le_text>>

NextParse == \E p \in InputPaths : CleanedCloud(p) \/ CleanCloud(p)

SpecParse == InitParse /\ [][NextParse]_vars

-----------------------------------------------------------------------------
(* Specification of the converter's Logic layer: preview and transform are  *)
(* called, in any order, on any path, with any subsample                    *)

Init ==
    /\ \E content \in FileContents(EngineLineKinds, MaxEngineLines) :
          fs = InitialFs(content)
    /\ le_text = DefaultText
    /\ points = <<>>
    /\ call = NoCall

Preview(p, f) ==
    \E rng \in SeededOrders(RowCount(fs, p)) :
        \E r \in {preview(fs, p, f, rng)} :
            /\ fs' = r.fs
            /\ call' = [NoCall EXCEPT !.op = "preview", !.filepath = p,
                                      !.subsample = f, !.count = r.ret,
                                      !.err = r.err]
            /\ UNCHANGED <<le_text, points>>

Transform(p, f) ==
    \E rng \in SeededOrders(RowCount(fs, p)) :
        \E r \in {transform(fs, p, f, rng)} :
            /\ fs' = r.fs
            /\ call' = [NoCall EXCEPT !.op = "transform", !.filepath = p,
                                      !.subsample = f,
                                      !.rows = cleaned_cloud(fs, p).ret,
                                      !.err = r.err]
            /\ UNCHANGED <<le_text, points>>

Next ==
    \E p \in {PathA, PathMissing}, f \in Fractions :
        Preview(p, f) \/ Transform(p, f)

Spec == Init /\ [][Next]_vars

-----------------------------------------------------------------------------
(* Specification of the converter with its subsample dialog, on a file of   *)
(* two data lines and a comment line: the Logic layer is also reached       *)
(* through PointCloudConverter.update_hint                                  *)

\* the file selected in the dialog
SelectedContent == CrLfLine \o CommentLine \o FourFieldLine

InitUI ==
    /\ fs = InitialFs(SelectedContent)
    /\ le_text = DefaultText
    /\ points = <<>>
    /\ call = NoCall

\* texts typed into the subsample field while a file is selected
HintTexts == {DefaultText, <<"0">>, <<"1", ".", "5">>, <<>>}

\* PointCloudConverter.update_hint, run when the text of the field changes
\* to t with file p selected: float(t) and preview raise ValueError into
\* the except branch (the label shows '***'), anything else out of the handler
UpdateHint(p, t) ==
    LET x == float(t)
    IN  /\ le_text' = t
        /\ UNCHANGED points
        /\ IF x.raised
           THEN /\ fs' = fs
                /\ call' = [NoCall EXCEPT !.op = "update_hint", !.filepath = p,
                                          !.text = t, !.none = TRUE,
                                          !.err = "ValueError"]
           ELSE \E rng \in SeededOrders(RowCount(fs, p)) :
                  \E r \in {preview(fs, p, x.value, rng)} :
                      /\ fs' = r.fs
                      /\ call' = [NoCall EXCEPT !.op = "update_hint",
                                     !.filepath = p, !.text = t,
                                     !.subsample = x.value, !.count = r.ret,
                                     !.err = r.err]

NextUI ==
    \/ \E p \in {PathA, PathMissing}, f \in Fractions :
          Preview(p, f) \/ Transform(p, f)
    \/ \E p \in {PathA, PathMissing}, t \in HintTexts : UpdateHint(p, t)

SpecUI == InitUI /\ [][NextUI]_vars

-----------------------------------------------------------------------------
(* Specification of the transformer variant: PointCloudTransformer.start    *)
(* run on one object, beside the converter's transform                      *)

\* texts accepted in the subsample dialog
SubsampleTexts == {DefaultText, <<".", "5">>, <<"0">>, <<>>}

\* start(): the file p is selected, the dialog is accepted with text t
TStart(p, t) ==
    LET v == validate_subsample(t)
    IN  /\ le_text' = t
        /\ IF v.none
           THEN /\ call' = [NoCall EXCEPT !.op = "input_error", !.filepath = p,
                                          !.text = t, !.none = TRUE]
                /\ UNCHANGED <<fs, points>>
           ELSE /\ Len(_clean_cloud(fs, p, points).container) <= MaxRows
                /\ \E rng \in SeededOrders(Len(_clean_cloud(fs, p, points).container)) :
                     \E r \in {T_transform(fs, p, points, v.value, rng)} :
                         /\ fs' = r.fs
                         /\ points' = r.container
                         /\ call' = [NoCall EXCEPT !.op = "T_transform",
                                        !.filepath = p, !.text = t,
                                        !.subsample = v.value,
                                        !.rows = r.container, !.err = r.err]

NextT ==
    \/ \E p \in {PathA, PathB}, t \in SubsampleTexts : TStart(p, t)
    \/ \E p \in {PathA, PathB} : Transform(p, [n |-> 1, d |-> 1])

SpecT == Init /\ [][NextT]_vars

-----------------------------------------------------------------------------
(* Claims about the validator (SpecValidate) *)

ValidateCalled == call.op \in {"validate_sub", "validate_subsample"}

\* n/d of a returned fraction equals a/b
RatEq(x, a, b) == x.n * b = a * x.d

\* C3: validate returns the parsed value exactly when the text parses as a
\* number x with 0 < x <= 1, returns None in every other case, and never
\* raises; so "1.0" gives 1.0, "0.5" gives 0.5, and "0", "1.1", "a", ""
\* give None.
C3_ValidateAcceptsExactlyUnitInterval ==
    ValidateCalled =>
        /\ call.err = ""
        /\ (~call.none) <=>
              /\ FloatParses(call.text)
              /\ 0 < FloatValue(call.text).n
              /\ FloatValue(call.text).n <= FloatValue(call.text).d
        /\ (~call.none) => call.value = FloatValue(call.text)
        /\ call.text = <<"1", ".", "0">> => ~call.none /\ RatEq(call.value, 1, 1)
        /\ call.text = <<"0", ".", "5">> => ~call.none /\ RatEq(call.value, 1, 2)
        /\ call.text \in {<<"0">>, <<"1", ".", "1">>, <<"a">>, <<>>} => call.none

\* both outcomes of C3 happen: a fraction is validated
C3_Witness ==
    /\ call.op = "validate_sub"
    /\ ~call.none
    /\ call.text = <<".", "5">>

-----------------------------------------------------------------------------
(* Claims about the parser (SpecParse) *)

ParseCalled == call.op \in {"cleaned_cloud", "_clean_cloud"}

\* the lines of the file at p that do not start with '#', in file order
DataLines(p) == SelectSeq(FileLines(fs[p].bytes), LAMBDA l : l[1] # "#")

\* number of commas of a line
Commas(l) == Cardinality({i \in 1..Len(l) : l[i] = ","})

\* s ends with a terminator character
EndsInTerminator(s) == s # <<>> /\ s[Len(s)] \in {CR, LF}

\* C4: parse returns one row per line not starting with '#', in file order,
\* and none for a line starting with '#': the result is as long as the
\* non-comment lines are many, at most as long as the file has lines, and
\* the i-th row holds the fields of the i-th non-comment line (the third
\* one possibly shortened by the stripped terminator).  It returns whenever
\* the file exists and every non-comment line has at least 3 fields.
C4_ParseOneRowPerDataLine ==
    ParseCalled =>
        LET lines == DataLines(call.filepath)
        IN  /\ (/\ fs[call.filepath].kind = "text"
                /\ \A i \in 1..Len(lines) : Commas(lines[i]) >= 2)
               => call.err = ""
            /\ call.err = "" =>
                 /\ Len(call.rows) = Len(lines)
                 /\ Len(call.rows) <= Len(FileLines(fs[call.filepath].bytes))
                 /\ \A i \in 1..Len(lines) :
                      LET fields == split(lines[i], ",")
                          row == call.rows[i]
                      IN  /\ Len(row) = Len(fields)
                          /\ \A j \in 1..Len(row) : j # 3 => row[j] = fields[j]
                          /\ \E k \in 0..Len(fields[3]) :
                                row[3] = SubSeq(fields[3], 1, k)

\* a file with a comment line between two data lines has been parsed
C4_Witness ==
    /\ call.op = "cleaned_cloud"
    /\ call.err = ""
    /\ Len(call.rows) = 2
    /\ Len(FileLines(fs[call.filepath].bytes)) = 3
    /\ FileLines(fs[call.filepath].bytes)[2][1] = "#"

\* C5: every row parse returns has exactly 3 fields; a line that splits
\* into fewer or more than 3 fields never yields a row.
C5_EveryRowHasThreeFields ==
    (ParseCalled /\ call.err = "") =>
        \A i \in 1..Len(call.rows) : Len(call.rows[i]) = 3

\* C6: no Z field of the cleaned cloud ends in a terminator character,
\* whether the line ended in CR LF or in LF alone, and X and Y are the
\* first two comma-separated fields of the line.
C6_ZFieldHasNoTerminator ==
    (ParseCalled /\ call.err = "") =>
        \A i \in 1..Len(call.rows) :
            /\ ~EndsInTerminator(call.rows[i][3])
            /\ Len(DataLines(call.filepath)) = Len(call.rows) =>
                 /\ call.rows[i][1] = split(DataLines(call.filepath)[i], ",")[1]
                 /\ call.rows[i][2] = split(DataLines(call.filepath)[i], ",")[2]

-----------------------------------------------------------------------------
(* Claims about preview and transform (Spec) *)

\* the subsample of the last call lies in (0, 1]
ValidSubsample == 0 < call.subsample.n /\ call.subsample.n <= call.subsample.d

\* the file given to the last call exists and every non-comment line of it
\* has at least 3 fields
Parsable ==
    /\ fs[call.filepath].kind = "text"
    /\ \A i \in 1..Len(DataLines(call.filepath)) :
          Commas(DataLines(call.filepath)[i]) >= 2

\* k is an integer nearest to (f.n / f.d) * N
NearestTo(k, f, N) ==
    LET diff == f.n * N - k * f.d
    IN  2 * (IF diff < 0 THEN 0 - diff ELSE diff) <= f.d

\* C1: for a file with N non-comment lines (N = 0 included) and a subsample
\* f with 0 < f <= 1, preview returns, and what it returns is f*N rounded
\* to a nearest integer, whatever order the seed draws.
C1_PreviewReturnsRoundedCount ==
    (call.op = "preview" /\ ValidSubsample /\ Parsable) =>
        LET N == Len(DataLines(call.filepath))
        IN  /\ call.err = ""
            /\ NearestTo(call.count, call.subsample, N)
            /\ 0 <= call.count /\ call.count <= N
            /\ N = 0 => call.count = 0

\* preview of 3/4 of a 2-line file returned 2
C1_Witness ==
    /\ call.op = "preview"
    /\ call.err = ""
    /\ call.subsample = [n |-> 3, d |-> 4]
    /\ Len(DataLines(call.filepath)) = 2
    /\ call.count = 2

\* out is inp with its extension (a last dot with a name before it, and
\* what follows) replaced by .xlsx, in the same directory
ExtensionReplaced(inp, out) ==
    \E k \in 1..Len(inp) :
        LET stem == SubSeq(inp, 1, k)
            ext == SubSeq(inp, k + 1, Len(inp))
        IN  /\ out = stem \o DotXlsx
            /\ stem[k] \notin {"/", "."}
            /\ ext = <<>> \/ (ext[1] = "." /\ \A j \in 2..Len(ext) : ext[j] \notin {".", "/"})
            /\ ext = <<>> => \A j \in 1..k : stem[j] # "." \/ \E i \in j..k : stem[i] = "/"

\* row, filled up with empty cells to the width of the sheet
Padded(row, width) ==
    [j \in 1..width |-> IF j <= Len(row) THEN row[j] ELSE NoneCell]

\* C2: after transform succeeds on a file with N non-comment lines and
\* 0 < f <= 1, the file whose name is the input's with the extension
\* replaced by .xlsx holds f*N rounded rows, each of them a parsed row of
\* the input with its cells and nothing before them (no index column, no
\* header row); with f = 1 it holds exactly N rows.
C2_TransformWritesRoundedRows ==
    (call.op = "transform" /\ call.err = "" /\ ValidSubsample) =>
        \E out \in Paths :
            LET N == Len(DataLines(call.filepath))
                grid == fs[out].grid
                rows == cleaned_cloud(fs, call.filepath).ret
            IN  /\ ExtensionReplaced(call.filepath, out)
                /\ fs[out].kind = "xlsx"
                /\ NearestTo(Len(grid), call.subsample, N)
                /\ call.subsample.n = call.subsample.d => Len(grid) = N
                /\ \A i \in 1..Len(grid) :
                      \E k \in 1..N : grid[i] = Padded(rows[k], Len(grid[i]))
                /\ \A i \in 1..Len(grid) : \E k \in 1..N : Len(grid[i]) = Len(rows[k])

\* transform of the whole of a 2-line file wrote 2 rows
C2_Witness ==
    /\ call.op = "transform"
    /\ call.err = ""
    /\ call.subsample = [n |-> 1, d |-> 1]
    /\ Len(DataLines(call.filepath)) = 2
    /\ Len(fs[_xlsx_path(call.filepath)].grid) = 2

\* C7: preview and transform called with a subsample outside (0, 1] fail
\* with an error and return no count, also when update_hint hands preview
\* the unvalidated value of the text field.
C7_OutOfRangeSubsampleFails ==
    (/\ call.op \in {"preview", "transform", "update_hint"}
     /\ ~call.none
     /\ ~ValidSubsample)
        => call.err # ""

\* C8: transform on a path that does not exist raises the input-not-found
\* error (IOError) and leaves every file, the .xlsx output path included,
\* as it was.
C8_TransformMissingInputWritesNothing ==
    [][(call'.op = "transform" /\ fs[call'.filepath].kind = "absent")
          => (call'.err = "IOError" /\ fs' = fs)]_vars

\* transform on the missing path raised, the output beside it is the old one
C8_Witness ==
    /\ call.op = "transform"
    /\ call.filepath = PathMissing
    /\ call.err = "IOError"
    /\ fs[PathMissing].kind = "absent"
    /\ fs[_xlsx_path(PathMissing)] = XlsxFile(StaleGrid)

\* C9: a call of preview, successful or failing, leaves the files and
\* their contents and the fields of its caller as they were.
C9_PreviewChangesNothing ==
    [][call'.op = "preview" => (fs' = fs /\ points' = points /\ le_text' = le_text)]_vars

\* preview returned a count for a file and no output exists beside it
C9_Witness ==
    /\ call.op = "preview"
    /\ call.err = ""
    /\ call.count > 0
    /\ fs[_xlsx_path(call.filepath)].kind = "absent"

-----------------------------------------------------------------------------
(* Claim about both variants (SpecT) *)

\* C10: the rows a transform call works on, and the rows it writes, are the
\* cleaned rows of the file it was given and no others: with subsample 1
\* the output holds as many rows as the file has non-comment lines.
C10_NoRowsCarriedOver ==
    (call.op \in {"transform", "T_transform"} /\ call.err = "") =>
        /\ call.rows = cleaned_cloud(fs, call.filepath).ret
        /\ call.subsample.n = call.subsample.d =>
              Len(fs[_xlsx_path(call.filepath)].grid) =
                  Len(DataLines(call.filepath))

====
